---------------------------- MODULE Spec2Model ----------------------------
(***************************************************************************)
(* Model of misc_writer/misc_writer.cpp: the writer of vendor flags into   *)
(* the vendor space of the /misc partition.                                *)
(*                                                                         *)
(* The partition layout and the flag definitions live in headers           *)
(* (bootloader_message.h, misc_writer.h) outside misc_writer.cpp.  The     *)
(* model keeps their order relations (vendor space starts after byte 0,    *)
(* the flags fit and do not overlap, the two flags differ in length, there *)
(* is a byte of the partition behind the vendor space) on a partition of   *)
(* a few bytes, and keeps size_t as a machine word that wraps, with        *)
(* SIZE_MAX small enough that offset + size can wrap.                      *)
(***************************************************************************)
EXTENDS Integers, Sequences, FiniteSets, TLC

\* ------------------------------------------------------------ bounds
\* Largest value of a size_t; arithmetic on size_t is modulo SIZE_MAX + 1.
SIZE_MAX == 7
\* Number of bytes of a misc block device.
DeviceSize == 7
\* PerformAction calls in one run.
MaxCalls == 1

\* -------------------------------------------- layout and flag constants
VENDOR_SPACE_OFFSET_IN_MISC == 1
WIPE_PACKAGE_OFFSET_IN_MISC == 6
kThemeFlagOffsetInVendorSpace == 0
kSotaFlagOffsetInVendorSpace == 2
\* Flag contents: byte strings without a zero byte (C strings).
kDarkThemeFlag == <<116, 100>>
kSotaFlag == <<101, 115, 97>>

\* ------------------------------------------------------------ values
Word == 0..SIZE_MAX
WordMod == SIZE_MAX + 1
\* size_t addition and subtraction: they wrap.
WAdd(a, b) == (a + b) % WordMod
WSub(a, b) == (a - b + WordMod) % WordMod

TestDev == "/tmp/misc_test"
MiscDev == "/dev/block/by-name/misc"
AltDev == "/dev/block/by-name/misc_alt"
\* The device nodes that exist; AltDev names no node, opening it fails.
Devices == {TestDev, MiscDev}
Cells == 0..(DeviceSize - 1)

kSetDarkThemeFlag == "kSetDarkThemeFlag"
kClearDarkThemeFlag == "kClearDarkThemeFlag"
kSetSotaFlag == "kSetSotaFlag"
kClearSotaFlag == "kClearSotaFlag"
kUnset == "kUnset"
MiscWriterActions ==
  {kSetDarkThemeFlag, kClearDarkThemeFlag, kSetSotaFlag, kClearSotaFlag, kUnset}

\* std::optional<size_t>
nullopt == [has |-> FALSE, val |-> 0]
Some(v) == [has |-> TRUE, val |-> v]
Overrides == {nullopt} \cup {Some(v) : v \in Word}
value_or(opt, dflt) == IF opt.has THEN opt.val ELSE dflt

\* std::string(n, 0)
Zeros(n) == [i \in 1..n |-> 0]
strlen(s) == Len(s)

\* One step of a call as the outside sees it.
Ev(op, path, off, buf, ok) ==
  [op |-> op, path |-> path, off |-> off, buf |-> buf, ok |-> ok]

\* ------------------------------------------------------- environment
\* What ReadDefaultFstab gives: whether it succeeded, and the entries.
Entry(mp, dev) == [mount_point |-> mp, blk_device |-> dev]
FstabInputs ==
  { [ok |-> FALSE, entries |-> <<>>],
    [ok |-> TRUE, entries |-> <<>>],
    [ok |-> TRUE, entries |-> <<Entry("/data", TestDev), Entry("/misc2", TestDev)>>],
    [ok |-> TRUE, entries |-> <<Entry("/misc2", TestDev), Entry("/misc", MiscDev)>>],
    [ok |-> TRUE, entries |-> <<Entry("/misc", MiscDev), Entry("/misc", TestDev)>>],
    [ok |-> TRUE, entries |-> <<Entry("/misc", AltDev)>>],
    [ok |-> TRUE, entries |-> <<Entry("/misc", "")>>] }

\* What the kernel does with one call's open, lseek, write and fsync:
\* open and fsync succeed or not, lseek returns the offset or not, and the
\* device accepts `accepted` bytes before a write fails (all of them when
\* accepted is at least the size).
MaxLen == IF Len(kDarkThemeFlag) > Len(kSotaFlag) THEN Len(kDarkThemeFlag) ELSE Len(kSotaFlag)
IoOk == [open |-> TRUE, seek |-> TRUE, accepted |-> MaxLen, fsync |-> TRUE]
IoInputs ==
  { IoOk,
    [IoOk EXCEPT !.open = FALSE],
    [IoOk EXCEPT !.seek = FALSE],
    [IoOk EXCEPT !.fsync = FALSE] }
  \cup { [IoOk EXCEPT !.accepted = k] : k \in 0..(MaxLen - 1) }

\* ------------------------------------------------------------- state
VARIABLES
  g_misc_device_for_test,  \* the test override of the device path
  disk,                    \* the bytes of each device node
  last,                    \* the last PerformAction call: inputs, result, steps
  repeated,                \* the last call repeated the one before, both succeeding
  again,                   \* the last writer's PerformAction was called again
  calls,                   \* PerformAction calls made with a new writer
  chk,                     \* a direct call of OffsetAndSizeInVendorSpace
  res,                     \* a direct call of get_misc_blk_device
  last_set                 \* the argument of the last SetMiscBlockDeviceForTest

vars == <<g_misc_device_for_test, disk, last, repeated, again, calls, chk, res, last_set>>

\* --------------------------------------------------------- the code
\* The assignment of SetMiscBlockDeviceForTest.
SetMiscBlockDeviceOnce(current, misc_device) ==
  IF current = "" THEN misc_device ELSE current

SetMiscBlockDevice(current, misc_device) == misc_device

\* android::base::WriteFully through the opened descriptor at position pos.
WriteFullyShort(dev, pos, p, size, accepted) ==
  LET n == IF accepted < size THEN accepted ELSE size IN
  [ok |-> accepted > 0 \/ size = 0,
   dev |-> [c \in Cells |-> IF c >= pos /\ c < pos + n THEN p[c - pos + 1] ELSE dev[c]]]

WriteFully(dev, pos, p, size, accepted) ==
  LET n == IF accepted < size THEN accepted ELSE size IN
  [ok |-> accepted >= size,
   dev |-> [c \in Cells |-> IF c >= pos /\ c < pos + n THEN p[c - pos + 1] ELSE dev[c]]]

OffsetAndSizeInVendorSpaceNaive(offset, size) ==
  LET total_size == WSub(WIPE_PACKAGE_OFFSET_IN_MISC, VENDOR_SPACE_OFFSET_IN_MISC) IN
  offset <= WSub(total_size, size)

OffsetAndSizeInVendorSpace(offset, size) ==
  LET total_size == WSub(WIPE_PACKAGE_OFFSET_IN_MISC, VENDOR_SPACE_OFFSET_IN_MISC) IN
  size <= total_size /\ offset <= WSub(total_size, size)

\* get_misc_blk_device: the path returned, *err, and the steps taken.
get_misc_blk_device_fstab_first(g, fs, err) ==
  IF ~fs.ok
    THEN [ret |-> "", err |-> "failed to read default fstab",
          log |-> <<Ev("ReadDefaultFstab", "", 0, <<>>, FALSE)>>]
    ELSE LET hits == {i \in DOMAIN fs.entries : fs.entries[i].mount_point = "/misc"}
             rd == <<Ev("ReadDefaultFstab", "", 0, <<>>, TRUE)>> IN
         IF hits = {}
           THEN IF g # "" THEN [ret |-> g, err |-> err, log |-> rd]
                ELSE [ret |-> "", err |-> "failed to find /misc partition", log |-> rd]
           ELSE [ret |-> fs.entries[CHOOSE i \in hits : \A j \in hits : i <= j].blk_device,
                 err |-> err, log |-> rd]

get_misc_blk_device(g, fs, err) ==
  IF g # ""
    THEN [ret |-> g, err |-> err, log |-> <<>>]
    ELSE IF ~fs.ok
      THEN [ret |-> "", err |-> "failed to read default fstab",
            log |-> <<Ev("ReadDefaultFstab", "", 0, <<>>, FALSE)>>]
      ELSE LET hits == {i \in DOMAIN fs.entries : fs.entries[i].mount_point = "/misc"}
               rd == <<Ev("ReadDefaultFstab", "", 0, <<>>, TRUE)>> IN
           IF hits = {}
             THEN [ret |-> "", err |-> "failed to find /misc partition", log |-> rd]
             ELSE [ret |-> fs.entries[CHOOSE i \in hits : \A j \in hits : i <= j].blk_device,
                   err |-> err, log |-> rd]

\* write_misc_partition: result, *err, the disk afterwards, the steps taken.
write_misc_partition_nosync(d, p, size, misc_blk_device, offset, io, err) ==
  LET opened == misc_blk_device \in DOMAIN d /\ io.open
      eOpen == Ev("open", misc_blk_device, 0, <<>>, opened) IN
  IF ~opened
    THEN [ok |-> FALSE, err |-> "failed to open", disk |-> d, log |-> <<eOpen>>]
    ELSE
  LET eSeek == Ev("lseek", misc_blk_device, offset, <<>>, io.seek) IN
  IF ~io.seek
    THEN [ok |-> FALSE, err |-> "failed to lseek", disk |-> d, log |-> <<eOpen, eSeek>>]
    ELSE
  LET w == WriteFully(d[misc_blk_device], offset, p, size, io.accepted)
      d2 == [d EXCEPT ![misc_blk_device] = w.dev]
      eWrite == Ev("write", misc_blk_device, offset, p, w.ok) IN
  IF ~w.ok
    THEN [ok |-> FALSE, err |-> "failed to write", disk |-> d2,
          log |-> <<eOpen, eSeek, eWrite>>]
    ELSE [ok |-> TRUE, err |-> err, disk |-> d2,
          log |-> <<eOpen, eSeek, eWrite, Ev("fsync", misc_blk_device, 0, <<>>, io.fsync)>>]

write_misc_partition(d, p, size, misc_blk_device, offset, io, err) ==
  LET opened == misc_blk_device \in DOMAIN d /\ io.open
      eOpen == Ev("open", misc_blk_device, 0, <<>>, opened) IN
  IF ~opened
    THEN [ok |-> FALSE, err |-> "failed to open", disk |-> d, log |-> <<eOpen>>]
    ELSE
  LET eSeek == Ev("lseek", misc_blk_device, offset, <<>>, io.seek) IN
  IF ~io.seek
    THEN [ok |-> FALSE, err |-> "failed to lseek", disk |-> d, log |-> <<eOpen, eSeek>>]
    ELSE
  LET w == WriteFully(d[misc_blk_device], offset, p, size, io.accepted)
      d2 == [d EXCEPT ![misc_blk_device] = w.dev]
      eWrite == Ev("write", misc_blk_device, offset, p, w.ok) IN
  IF ~w.ok
    THEN [ok |-> FALSE, err |-> "failed to write", disk |-> d2,
          log |-> <<eOpen, eSeek, eWrite>>]
    ELSE
  LET eSync == Ev("fsync", misc_blk_device, 0, <<>>, io.fsync) IN
  IF ~io.fsync
    THEN [ok |-> FALSE, err |-> "failed to fsync", disk |-> d2,
          log |-> <<eOpen, eSeek, eWrite, eSync>>]
    ELSE [ok |-> TRUE, err |-> err, disk |-> d2,
          log |-> <<eOpen, eSeek, eWrite, eSync>>]

\* MiscWriter::WriteMiscPartitionVendorSpace
WriteMiscPartitionVendorSpaceUnchecked(d, data, size, offset, g, fs, io, err) ==
  LET r == get_misc_blk_device(g, fs, err)
      eRes == Ev("get_misc_blk_device", r.ret, 0, <<>>, r.ret # "") IN
  IF r.ret = ""
    THEN [ok |-> FALSE, err |-> r.err, disk |-> d, path |-> "",
          log |-> r.log \o <<eRes>>]
    ELSE LET w == write_misc_partition(d, data, size, r.ret,
                    WAdd(VENDOR_SPACE_OFFSET_IN_MISC, offset), io, r.err) IN
         [ok |-> w.ok, err |-> w.err, disk |-> w.disk, path |-> r.ret,
          log |-> r.log \o <<eRes>> \o w.log]

WriteMiscPartitionVendorSpaceResolveFirst(d, data, size, offset, g, fs, io, err) ==
  LET inb == OffsetAndSizeInVendorSpace(offset, size)
      eBounds == Ev("OffsetAndSizeInVendorSpace", "", offset, data, inb)
      r == get_misc_blk_device(g, fs, err)
      eRes == Ev("get_misc_blk_device", r.ret, 0, <<>>, r.ret # "") IN
  IF r.ret = ""
    THEN [ok |-> FALSE, err |-> r.err, disk |-> d, path |-> "",
          log |-> r.log \o <<eRes>>]
    ELSE
  IF ~inb
    THEN [ok |-> FALSE, err |-> "Out of bound write", disk |-> d, path |-> "",
          log |-> r.log \o <<eRes, eBounds>>]
    ELSE LET w == write_misc_partition(d, data, size, r.ret,
                    WAdd(VENDOR_SPACE_OFFSET_IN_MISC, offset), io, r.err) IN
         [ok |-> w.ok, err |-> w.err, disk |-> w.disk, path |-> r.ret,
          log |-> r.log \o <<eRes, eBounds>> \o w.log]

WriteMiscPartitionVendorSpace(d, data, size, offset, g, fs, io, err) ==
  LET inb == OffsetAndSizeInVendorSpace(offset, size)
      eBounds == Ev("OffsetAndSizeInVendorSpace", "", offset, data, inb) IN
  IF ~inb
    THEN [ok |-> FALSE, err |-> "Out of bound write", disk |-> d, path |-> "",
          log |-> <<eBounds>>]
    ELSE
  LET r == get_misc_blk_device(g, fs, err)
      eRes == Ev("get_misc_blk_device", r.ret, 0, <<>>, r.ret # "") IN
  IF r.ret = ""
    THEN [ok |-> FALSE, err |-> r.err, disk |-> d, path |-> "",
          log |-> <<eBounds>> \o r.log \o <<eRes>>]
    ELSE LET w == write_misc_partition(d, data, size, r.ret,
                    WAdd(VENDOR_SPACE_OFFSET_IN_MISC, offset), io, r.err) IN
         [ok |-> w.ok, err |-> w.err, disk |-> w.disk, path |-> r.ret,
          log |-> <<eBounds>> \o r.log \o <<eRes>> \o w.log]

\* The switch of PerformAction: the offset and the content of an action.
ActionOffsetFixed(action_, override_offset) ==
  IF action_ \in {kSetDarkThemeFlag, kClearDarkThemeFlag}
    THEN kThemeFlagOffsetInVendorSpace
    ELSE kSotaFlagOffsetInVendorSpace

ActionOffset(action_, override_offset) ==
  IF action_ \in {kSetDarkThemeFlag, kClearDarkThemeFlag}
    THEN value_or(override_offset, kThemeFlagOffsetInVendorSpace)
    ELSE value_or(override_offset, kSotaFlagOffsetInVendorSpace)

ActionContentClearShort(action_) ==
  CASE action_ = kSetDarkThemeFlag -> kDarkThemeFlag
    [] action_ = kClearDarkThemeFlag -> Zeros(strlen(kDarkThemeFlag))
    [] action_ = kSetSotaFlag -> kSotaFlag
    [] action_ = kClearSotaFlag -> Zeros(strlen(kDarkThemeFlag))

ActionContent(action_) ==
  CASE action_ = kSetDarkThemeFlag -> kDarkThemeFlag
    [] action_ = kClearDarkThemeFlag -> Zeros(strlen(kDarkThemeFlag))
    [] action_ = kSetSotaFlag -> kSotaFlag
    [] action_ = kClearSotaFlag -> Zeros(strlen(kSotaFlag))

\* MiscWriter::PerformAction as a function of its inputs and the state.
PerformActionResultNoUnsetCheck(d, g, action_, override_offset, fs, io) ==
  LET offset == IF action_ = kUnset THEN 0 ELSE ActionOffset(action_, override_offset)
      content == IF action_ = kUnset THEN <<>> ELSE ActionContent(action_) IN
  WriteMiscPartitionVendorSpace(d, content, Len(content), offset, g, fs, io, "")

PerformActionResult(d, g, action_, override_offset, fs, io) ==
  IF action_ = kUnset
    THEN [ok |-> FALSE, err |-> "", disk |-> d, path |-> "", log |-> <<>>]
    ELSE LET offset == ActionOffset(action_, override_offset)
             content == ActionContent(action_) IN
         WriteMiscPartitionVendorSpace(d, content, Len(content), offset, g, fs, io, "")

FstabUnread == [ok |-> FALSE, entries |-> <<>>]

NoCall ==
  [action |-> kUnset, override |-> nullopt, fs |-> FstabUnread,
   g |-> "", ok |-> FALSE, err |-> "", path |-> "", log |-> <<>>,
   before |-> [p \in Devices |-> [c \in Cells |-> 0]]]

\* What the devices hold at first: one device holds only zero bytes and the
\* other none, either way round.
InitDisks ==
  { [p \in Devices |-> [c \in Cells |-> IF p = z THEN 0 ELSE 255]] : z \in Devices }

NoCheck == [offset |-> 0, size |-> 0, result |-> FALSE, done |-> FALSE]
NoResolve == [g |-> "", set |-> "", fs |-> FstabUnread, ret |-> "", err |-> "", log |-> <<>>, done |-> FALSE]

Init ==
  /\ g_misc_device_for_test = ""
  /\ disk \in InitDisks
  /\ last = [NoCall EXCEPT !.before = disk]
  /\ repeated = FALSE
  /\ again = FALSE
  /\ calls = 0
  /\ chk = NoCheck
  /\ res = NoResolve
  /\ last_set = ""

\* Whether a call made the step `op`.
Did(log, op) == \E i \in DOMAIN log : log[i].op = op

\* The bounds of a run: MaxCalls calls, then one more call of the last
\* writer's PerformAction when it succeeded.
CanCall == calls < MaxCalls
CanCallAgain == calls = MaxCalls /\ calls > 0 /\ last.ok /\ ~again

\* SetMiscBlockDeviceForTest(misc_device)
SetMiscBlockDeviceForTest ==
  /\ CanCall \/ CanCallAgain
  /\ \E misc_device \in {"", TestDev, MiscDev} :
       /\ g_misc_device_for_test' = SetMiscBlockDevice(g_misc_device_for_test, misc_device)
       /\ last_set' = misc_device
  /\ UNCHANGED <<disk, last, repeated, again, calls, chk, res>>

\* One call of PerformAction.  The environment answers the calls the code
\* makes: ReadDefaultFstab has a result only when it is called, and open,
\* lseek, write and fsync have one only when the device is opened.
Call(action_, override_offset) ==
  LET g == g_misc_device_for_test
      dryFs == PerformActionResult(disk, g, action_, override_offset, FstabUnread, IoOk) IN
  \E fs \in (IF Did(dryFs.log, "ReadDefaultFstab") THEN FstabInputs ELSE {FstabUnread}) :
    LET dryIo == PerformActionResult(disk, g, action_, override_offset, fs, IoOk) IN
    \E io \in (IF Did(dryIo.log, "open") THEN IoInputs ELSE {IoOk}) :
      LET r == PerformActionResult(disk, g, action_, override_offset, fs, io) IN
      /\ disk' = r.disk
      /\ last' = [action |-> action_, override |-> override_offset, fs |-> fs,
                  g |-> g, ok |-> r.ok, err |-> r.err, path |-> r.path,
                  log |-> r.log, before |-> disk]
      /\ repeated' = (/\ calls > 0 /\ last.ok /\ r.ok
                      /\ last.action = action_ /\ last.override = override_offset
                      /\ last.path = r.path)

\* MiscWriter(action).PerformAction(override_offset)
PerformAction ==
  /\ CanCall
  /\ \E action_ \in MiscWriterActions, override_offset \in Overrides :
       Call(action_, override_offset)
  /\ calls' = calls + 1
  /\ UNCHANGED <<g_misc_device_for_test, again, chk, res, last_set>>

\* The same writer's PerformAction, called again with the same argument.
PerformActionAgain ==
  /\ CanCallAgain
  /\ Call(last.action, last.override)
  /\ again' = TRUE
  /\ UNCHANGED <<g_misc_device_for_test, calls, chk, res, last_set>>

Next == SetMiscBlockDeviceForTest \/ PerformAction \/ PerformActionAgain

Spec == Init /\ [][Next]_vars

\* ------------------------------------------ the bounds check on its own
InitGuard ==
  /\ g_misc_device_for_test = ""
  /\ disk = [p \in Devices |-> [c \in Cells |-> 0]]
  /\ last = NoCall
  /\ repeated = FALSE
  /\ again = FALSE
  /\ calls = 0
  /\ res = NoResolve
  /\ last_set = ""
  /\ chk \in {[offset |-> o, size |-> s, result |-> FALSE, done |-> FALSE] :
                o \in Word, s \in Word}

CallOffsetAndSizeInVendorSpace ==
  /\ ~chk.done
  /\ chk' = [chk EXCEPT !.result = OffsetAndSizeInVendorSpace(chk.offset, chk.size),
                        !.done = TRUE]
  /\ UNCHANGED <<g_misc_device_for_test, disk, last, repeated, again, calls, res, last_set>>

NextGuard == CallOffsetAndSizeInVendorSpace

SpecGuard == InitGuard /\ [][NextGuard]_vars

\* --------------------------------------- device resolution on its own
InitResolve ==
  /\ g_misc_device_for_test = ""
  /\ disk = [p \in Devices |-> [c \in Cells |-> 0]]
  /\ last = NoCall
  /\ repeated = FALSE
  /\ again = FALSE
  /\ calls = 0
  /\ chk = NoCheck
  /\ res = NoResolve
  /\ last_set = ""

SetMiscBlockDeviceForTestAny ==
  /\ \E misc_device \in {"", TestDev, MiscDev, AltDev} :
       /\ g_misc_device_for_test' = SetMiscBlockDevice(g_misc_device_for_test, misc_device)
       /\ last_set' = misc_device
  /\ UNCHANGED <<disk, last, repeated, again, calls, chk, res>>

\* get_misc_blk_device(&err) with err empty, under every fstab there may be.
CallGetMiscBlkDevice ==
  /\ \E fs \in FstabInputs :
       LET r == get_misc_blk_device(g_misc_device_for_test, fs, "") IN
       res' = [g |-> g_misc_device_for_test, set |-> last_set, fs |-> fs, ret |-> r.ret,
               err |-> r.err, log |-> r.log, done |-> TRUE]
  /\ UNCHANGED <<g_misc_device_for_test, disk, last, repeated, again, calls, chk, last_set>>

NextResolve == SetMiscBlockDeviceForTestAny \/ CallGetMiscBlkDevice

SpecResolve == InitResolve /\ [][NextResolve]_vars


\* ================================================================ claims
\* What a call was asked to do, read off the flag definitions.
FlagOf(action) ==
  IF action \in {kSetDarkThemeFlag, kClearDarkThemeFlag} THEN kDarkThemeFlag ELSE kSotaFlag
FixedOffsetOf(action) ==
  IF action \in {kSetDarkThemeFlag, kClearDarkThemeFlag}
    THEN kThemeFlagOffsetInVendorSpace ELSE kSotaFlagOffsetInVendorSpace
IsSet(action) == action \in {kSetDarkThemeFlag, kSetSotaFlag}
Called == calls > 0
ReqOffset == IF last.override.has THEN last.override.val ELSE FixedOffsetOf(last.action)
ReqLen == Len(FlagOf(last.action))
ReqContent == IF IsSet(last.action) THEN FlagOf(last.action) ELSE [i \in 1..ReqLen |-> 0]
\* Unbounded integers: no wrap here.
Capacity == WIPE_PACKAGE_OFFSET_IN_MISC - VENDOR_SPACE_OFFSET_IN_MISC
Fits(offset, size) == offset + size <= Capacity
Touched(p, c) == disk[p][c] # last.before[p][c]
IoOps == {"open", "lseek", "write", "fsync"}
ResolveOps == {"ReadDefaultFstab", "get_misc_blk_device"}
Steps(ops) == {i \in DOMAIN last.log : last.log[i].op \in ops}
OpsOf(log) == [i \in DOMAIN log |-> log[i].op]

\* C1: a byte of a device that a PerformAction call changed lies in
\* [VENDOR_SPACE_OFFSET, WIPE_PACKAGE_OFFSET) and in the call's requested
\* range [VENDOR_SPACE_OFFSET + offset, VENDOR_SPACE_OFFSET + offset + size);
\* every other byte of every device keeps the value it had before the call,
\* whether the call succeeded or failed at any step.  The range handed to
\* write is that range too, so a byte rewritten with its old value is inside.
C1_WritesStayInRange ==
  /\ \A p \in Devices, c \in Cells :
       Touched(p, c) =>
         /\ last.action # kUnset
         /\ p = last.path
         /\ VENDOR_SPACE_OFFSET_IN_MISC <= c /\ c < WIPE_PACKAGE_OFFSET_IN_MISC
         /\ VENDOR_SPACE_OFFSET_IN_MISC + ReqOffset <= c
         /\ c < VENDOR_SPACE_OFFSET_IN_MISC + ReqOffset + ReqLen
  /\ \A i \in Steps({"write"}) :
       /\ last.log[i].off = VENDOR_SPACE_OFFSET_IN_MISC + ReqOffset
       /\ Len(last.log[i].buf) = ReqLen
       /\ VENDOR_SPACE_OFFSET_IN_MISC <= last.log[i].off
       /\ last.log[i].off + Len(last.log[i].buf) <= WIPE_PACKAGE_OFFSET_IN_MISC

\* A failed call (a write that stopped part way) that changed a byte at an
\* override offset.
C1_Witness ==
  /\ Called /\ ~last.ok /\ last.override.has
  /\ \E p \in Devices, c \in Cells : Touched(p, c)

\* C2: OffsetAndSizeInVendorSpace(offset, size) is true exactly when
\* size <= capacity and offset <= capacity - size, which is exactly when the
\* sum offset + size, taken without wrapping, is at most the capacity.
C2_BoundsCheckExact ==
  chk.done =>
    /\ chk.result <=> (chk.size <= Capacity /\ chk.offset <= Capacity - chk.size)
    /\ chk.result <=> Fits(chk.offset, chk.size)

\* A refused pair whose sum wraps around in word arithmetic to a value
\* within the capacity.
C2_Witness ==
  /\ chk.done /\ ~chk.result
  /\ chk.offset + chk.size > SIZE_MAX
  /\ (chk.offset + chk.size) % WordMod <= Capacity

\* C3: in one call the bounds check comes first, device resolution after it
\* and only when it passed, and open, lseek, write and fsync only after a
\* resolution that gave a path; a request out of bounds returns failure with
\* no resolution and no I/O, and a failed resolution returns failure with no
\* I/O; in both cases no byte changes.
C3_BoundsThenResolveThenWrite ==
  (Called /\ last.action # kUnset) =>
    /\ last.log # <<>>
    /\ last.log[1].op = "OffsetAndSizeInVendorSpace"
    /\ last.log[1].ok <=> Fits(ReqOffset, ReqLen)
    /\ \A i \in Steps(ResolveOps \cup IoOps) : i > 1 /\ last.log[1].ok
    /\ \A i \in Steps(IoOps) :
         \E j \in Steps({"get_misc_blk_device"}) : j < i /\ last.log[j].ok
    /\ ~Fits(ReqOffset, ReqLen) =>
         /\ ~last.ok /\ Steps(ResolveOps \cup IoOps) = {} /\ disk = last.before
    /\ (\E j \in Steps({"get_misc_blk_device"}) : ~last.log[j].ok) =>
         /\ ~last.ok /\ Steps(IoOps) = {} /\ disk = last.before

\* A call in bounds whose resolution failed.
C3_Witness ==
  /\ Called /\ Fits(ReqOffset, ReqLen) /\ last.action # kUnset
  /\ \E j \in Steps({"get_misc_blk_device"}) : ~last.log[j].ok

\* C4: the write succeeds only if open, lseek to the requested absolute
\* offset, the write of the whole buffer and fsync all succeeded, in that
\* order; a step that fails is the last step made and makes the call fail,
\* also an fsync that fails after the bytes were written.
C4_SuccessNeedsEveryStep ==
  LET io == SelectSeq(last.log, LAMBDA e : e.op \in IoOps)
      n == Len(io) IN
  Called =>
    /\ OpsOf(io) = SubSeq(<<"open", "lseek", "write", "fsync">>, 1, n)
    /\ \A i \in 1..n : ~io[i].ok => (i = n /\ ~last.ok)
    /\ last.ok =>
         /\ n = 4
         /\ \A i \in 1..4 : io[i].ok /\ io[i].path = last.path
         /\ io[2].off = VENDOR_SPACE_OFFSET_IN_MISC + ReqOffset
         /\ io[3].off = io[2].off /\ io[3].buf = ReqContent
         /\ \A k \in 1..ReqLen : disk[last.path][io[2].off + k - 1] = ReqContent[k]

\* A call that failed at fsync after all its bytes reached the device.
C4_Witness ==
  /\ Called /\ ~last.ok /\ last.log # <<>>
  /\ last.log[Len(last.log)].op = "fsync"
  /\ disk # last.before

\* C5: PerformAction of a writer whose action is kUnset returns failure
\* and does nothing: no bounds check, no resolution, no open, lseek, write
\* or fsync, and no byte of any device changes, whatever the override offset
\* and the test device are.
C5_UnsetDoesNothing ==
  (Called /\ last.action = kUnset) =>
    /\ ~last.ok /\ last.log = <<>> /\ disk = last.before

\* A kUnset call with an override offset in bounds and a test device set.
C5_Witness ==
  /\ Called /\ last.action = kUnset
  /\ last.override.has /\ last.override.val = 0 /\ last.g = TestDev

\* C6: with an override offset a set or clear action checks the bounds of
\* (override, length of the flag), seeks to VENDOR_SPACE_OFFSET + override
\* and writes the content it writes without an override; out of bounds it
\* fails and writes nothing.  Without an override it uses the flag's fixed
\* offset.
C6_OverrideTakesPrecedence ==
  (Called /\ last.action # kUnset) =>
    LET want == IF last.override.has THEN last.override.val
                ELSE FixedOffsetOf(last.action) IN
    /\ last.log # <<>>
    /\ last.log[1].op = "OffsetAndSizeInVendorSpace"
    /\ last.log[1].off = want /\ last.log[1].buf = ReqContent
    /\ \A i \in Steps({"lseek", "write"}) :
         last.log[i].off = VENDOR_SPACE_OFFSET_IN_MISC + want
    /\ \A i \in Steps({"write"}) : last.log[i].buf = ReqContent
    /\ ~Fits(want, ReqLen) => (~last.ok /\ Steps({"write"}) = {} /\ disk = last.before)

\* A successful call at an override offset other than the fixed one.
C6_Witness ==
  /\ Called /\ last.ok /\ last.override.has
  /\ last.override.val # FixedOffsetOf(last.action)

\* C7: a call of WriteMiscPartitionVendorSpace that returns false leaves a
\* non-empty message in *err.
C7_FailureHasMessage ==
  (Called /\ last.action # kUnset /\ ~last.ok) => last.err # ""

\* C8: after a successful set action the bytes at
\* [VENDOR_SPACE_OFFSET + offset, + length) are the flag's content; after a
\* successful clear action the same range, of the same length, is all zero;
\* whatever the device held before.
C8_RoundTrip ==
  (Called /\ last.ok) =>
    \A k \in 1..ReqLen :
      disk[last.path][VENDOR_SPACE_OFFSET_IN_MISC + ReqOffset + k - 1] =
        (IF IsSet(last.action) THEN FlagOf(last.action)[k] ELSE 0)

\* A successful clear of the longer flag over bytes that were all not zero.
C8_Witness ==
  /\ Called /\ last.ok /\ last.action = kClearSotaFlag
  /\ \A k \in 1..ReqLen :
       last.before[last.path][VENDOR_SPACE_OFFSET_IN_MISC + ReqOffset + k - 1] # 0

\* C9: get_misc_blk_device returns the most recently set override when it
\* is not empty, without reading the fstab; otherwise the blk_device of the
\* first fstab entry whose mount_point is exactly "/misc", and it fails with
\* a message when the fstab cannot be read or has no such entry.
C9_ResolutionFollowsOverrideThenFstab ==
  res.done =>
    LET hits == {i \in DOMAIN res.fs.entries : res.fs.entries[i].mount_point = "/misc"} IN
    IF res.set # ""
      THEN res.ret = res.set /\ res.log = <<>> /\ res.err = ""
      ELSE IF ~res.fs.ok \/ hits = {}
        THEN res.ret = "" /\ res.err # ""
        ELSE /\ \E i \in hits : /\ \A j \in hits : i <= j
                                /\ res.ret = res.fs.entries[i].blk_device
             /\ res.err = ""

\* A resolution through the fstab after an override was set and then
\* cleared, with another mount point before the /misc entry.
C9_Witness ==
  /\ res.done /\ res.set = "" /\ res.ret = MiscDev
  /\ Len(res.fs.entries) = 2 /\ res.fs.entries[1].mount_point = "/misc2"

\* C10: a set or clear action performed twice in succession at the same
\* offset on the same device, both calls succeeding, leaves every byte as it
\* was after the first call.
C10_Idempotent ==
  repeated => disk = last.before

\* The second of two successful identical calls at an override offset.
C10_Witness ==
  /\ repeated /\ again /\ last.override.has

=============================================================================
